---- MODULE Spec2Model ----
(***************************************************************************)
(* Model of app.py (Streamlit CRO analyser): the deterministic scorer      *)
(* calculate_health_score, the score extraction and insight segmentation   *)
(* of the "Analyze Website" handler, and the session state it writes.      *)
(*                                                                         *)
(* Python floats are IEEE-754 doubles.  They are modelled exactly: a       *)
(* double is a 53-bit mantissa (an arbitrary-precision natural number kept *)
(* as little-endian limbs of 15 bits) and a binary exponent, and every     *)
(* float operation rounds to nearest, ties to even, as the hardware does.  *)
(***************************************************************************)
EXTENDS Integers, Sequences, FiniteSets, TLC

VARIABLES
    analysis_data,      \* st.session_state.analysis_data: URL -> stored text
    current_url,        \* st.session_state.current_url (<<>> for None)
    ux_health_score,    \* st.session_state.ux_health_score (None or an int)
    url,                \* the value of the "Enter URL:" text input
    button,             \* TRUE iff the last script run was an Analyze click
    calls,              \* collaborator calls of the last script run, in order
    error,              \* the st.error message of the last script run
    fetch_result,       \* what the fetch of the last run did: "" (not called),
                        \* "ok", or the exception it raised
    site_data,          \* the bundle of the run / the scorer's argument
    extracted_score,    \* the handler's local extracted_score (line 647)
    n_parts,            \* len(analysis_content) at line 673, 0 if not reached
    shown,              \* what the results section rendered in the last run
    response_text,      \* the text score extraction is applied to
    page,               \* the parsed page fetch_website_content analyses
    score_first,        \* result of the first call of the scorer
    score_last,         \* result of the latest call of the scorer
    n_calls             \* number of calls of the scorer so far

(***************************************************************************)
(* Arbitrary-precision naturals: little-endian limbs, no leading zero limb *)
(***************************************************************************)
LimbBase == 32768

LimbBits == 15

MantBits == 53

RECURSIVE Pow2(_)
Pow2(k) == IF k = 0 THEN 1 ELSE 2 * Pow2(k - 1)

RECURSIVE SmallBitLen(_)
SmallBitLen(n) == IF n = 0 THEN 0 ELSE 1 + SmallBitLen(n \div 2)

RECURSIVE BigNorm(_)
BigNorm(a) ==
    IF Len(a) = 0 THEN a
    ELSE IF a[Len(a)] = 0 THEN BigNorm(SubSeq(a, 1, Len(a) - 1))
    ELSE a

RECURSIVE BigFromInt(_)
BigFromInt(n) ==
    IF n = 0 THEN <<>> ELSE <<n % LimbBase>> \o BigFromInt(n \div LimbBase)

RECURSIVE BigToInt(_)
BigToInt(a) ==
    IF Len(a) = 0 THEN 0 ELSE a[1] + LimbBase * BigToInt(Tail(a))

BigLimb(a, i) == IF i <= Len(a) THEN a[i] ELSE 0

RECURSIVE BigAddFrom(_, _, _, _)
BigAddFrom(a, b, i, c) ==
    IF i > Len(a) /\ i > Len(b)
    THEN (IF c = 0 THEN <<>> ELSE <<c>>)
    ELSE LET s == BigLimb(a, i) + BigLimb(b, i) + c
         IN  <<s % LimbBase>> \o BigAddFrom(a, b, i + 1, s \div LimbBase)

BigAdd(a, b) == BigAddFrom(a, b, 1, 0)

RECURSIVE BigMulSmallFrom(_, _, _, _)
BigMulSmallFrom(a, k, i, c) ==
    IF i > Len(a)
    THEN (IF c = 0 THEN <<>> ELSE <<c>>)
    ELSE LET s == a[i] * k + c
         IN  <<s % LimbBase>> \o BigMulSmallFrom(a, k, i + 1, s \div LimbBase)

BigMulSmall(a, k) == IF k = 0 THEN <<>> ELSE BigMulSmallFrom(a, k, 1, 0)

BigShiftLimbs(a, n) ==
    IF Len(a) = 0 THEN a ELSE [i \in 1..n |-> 0] \o a

RECURSIVE BigMulFrom(_, _, _)
BigMulFrom(a, b, i) ==
    IF i > Len(b) THEN <<>>
    ELSE BigAdd(BigShiftLimbs(BigMulSmall(a, b[i]), i - 1),
                BigMulFrom(a, b, i + 1))

BigMul(a, b) == BigMulFrom(a, b, 1)

\* quotient of a by a small divisor d, most significant limb first
RECURSIVE BigDivSmallFrom(_, _, _, _)
BigDivSmallFrom(a, d, i, r) ==
    IF i = 0 THEN <<>>
    ELSE LET cur == r * LimbBase + a[i]
         IN  BigDivSmallFrom(a, d, i - 1, cur % d) \o <<cur \div d>>

BigDivSmall(a, d) == BigNorm(BigDivSmallFrom(a, d, Len(a), 0))

RECURSIVE BigModSmallFrom(_, _, _, _)
BigModSmallFrom(a, d, i, r) ==
    IF i = 0 THEN r
    ELSE BigModSmallFrom(a, d, i - 1, (r * LimbBase + a[i]) % d)

BigModSmall(a, d) == BigModSmallFrom(a, d, Len(a), 0)

BigBitLen(a) ==
    IF Len(a) = 0 THEN 0
    ELSE LimbBits * (Len(a) - 1) + SmallBitLen(a[Len(a)])

BigShl(a, s) ==
    BigShiftLimbs(BigMulSmall(a, Pow2(s % LimbBits)), s \div LimbBits)

BigShr(a, s) ==
    LET drop == s \div LimbBits
    IN  IF drop >= Len(a) THEN <<>>
        ELSE BigDivSmall(SubSeq(a, drop + 1, Len(a)), Pow2(s % LimbBits))

\* bit number p (0 = least significant) of a
BigBit(a, p) ==
    (BigLimb(a, (p \div LimbBits) + 1) \div Pow2(p % LimbBits)) % 2

\* TRUE iff some bit of a below position p is set
BigAnyBelow(a, p) ==
    \/ \E i \in 1..Len(a) : i <= p \div LimbBits /\ a[i] # 0
    \/ BigLimb(a, (p \div LimbBits) + 1) % Pow2(p % LimbBits) # 0

RECURSIVE BigLessFrom(_, _, _)
BigLessFrom(a, b, i) ==
    IF i = 0 THEN FALSE
    ELSE IF a[i] # b[i] THEN a[i] < b[i]
    ELSE BigLessFrom(a, b, i - 1)

BigLess(a, b) ==
    IF Len(a) # Len(b) THEN Len(a) < Len(b) ELSE BigLessFrom(a, b, Len(a))

(***************************************************************************)
(* IEEE-754 doubles (non-negative, normal range): value = m * 2^e with m a *)
(* 53-bit natural, or m = <<>> for 0.0                                     *)
(***************************************************************************)
FZero == [m |-> <<>>, e |-> 0]

\* Rounding of the exact value n * 2^x (plus a non-zero tail below it when
\* sticky) to the nearest double, ties to even.  The steps are operators with
\* parameters so that each intermediate value is computed once.
FRoundCarry(m1, x) ==
    IF BigBitLen(m1) > MantBits
    THEN [m |-> BigShr(m1, 1), e |-> x + 1]
    ELSE [m |-> m1, e |-> x]

FRoundUp(q, up, x) ==
    FRoundCarry(IF up THEN BigAdd(q, <<1>>) ELSE q, x)

\* drop the d low bits of n: round up when the first dropped bit is set and
\* either a lower bit is set or the kept mantissa is odd
FRoundCut(n, x, sticky, d) ==
    FRoundUp(BigShr(n, d),
             BigBit(n, d - 1) = 1
                /\ (sticky \/ BigAnyBelow(n, d - 1) \/ BigBit(n, d) = 1),
             x + d)

FRoundLen(n, x, sticky, L) ==
    IF L = 0 THEN FZero
    ELSE IF L <= MantBits
    THEN [m |-> BigShl(n, MantBits - L), e |-> x - (MantBits - L)]
    ELSE FRoundCut(n, x, sticky, L - MantBits)

FRound(n, x, sticky) == FRoundLen(n, x, sticky, BigBitLen(n))

\* float(n) for a Python int n >= 0
FFromInt(n) == FRound(BigFromInt(n), 0, FALSE)

DivGuardBits == 70

FDivBig(num, d) ==
    FRound(BigDivSmall(num, d), 0 - DivGuardBits, BigModSmall(num, d) # 0)

\* n / d for Python ints n >= 0, d > 0 (true division, correctly rounded);
\* also the value of a decimal literal such as 0.35 = 35/100
FDivInt(n, d) == FDivBig(BigShl(BigFromInt(n), DivGuardBits), d)

FMul(a, b) ==
    IF Len(a.m) = 0 \/ Len(b.m) = 0 THEN FZero
    ELSE FRound(BigMul(a.m, b.m), a.e + b.e, FALSE)

FAddAt(a, b, e0) ==
    FRound(BigAdd(BigShl(a.m, a.e - e0), BigShl(b.m, b.e - e0)), e0, FALSE)

FAdd(a, b) ==
    IF Len(a.m) = 0 THEN b
    ELSE IF Len(b.m) = 0 THEN a
    ELSE FAddAt(a, b, IF a.e < b.e THEN a.e ELSE b.e)

FLess(a, b) ==
    IF Len(b.m) = 0 THEN FALSE
    ELSE IF Len(a.m) = 0 THEN TRUE
    ELSE IF a.e # b.e THEN a.e < b.e
    ELSE BigLess(a.m, b.m)

FLeq(a, b) == ~FLess(b, a)

\* int(x) for a float x >= 0: truncation toward zero
FTrunc(a) ==
    IF Len(a.m) = 0 THEN 0
    ELSE IF a.e >= 0 THEN BigToInt(BigShl(a.m, a.e))
    ELSE BigToInt(BigShr(a.m, 0 - a.e))

(***************************************************************************)
(* calculate_health_score (app.py 24-142)                                  *)
(* The argument is the nested record fetch_website_content returns; the two*)
(* aggregate form scores are doubles, all other fields are ints / bools.   *)
(***************************************************************************)
Max(a, b) == IF a >= b THEN a ELSE b

Min(a, b) == IF a <= b THEN a ELSE b

\* the float literals of calculate_health_score
Lit_0_1 == FDivInt(1, 10)

Lit_0_2 == FDivInt(2, 10)

Lit_0_3 == FDivInt(3, 10)

Lit_0_4 == FDivInt(4, 10)

Lit_7_5 == FDivInt(15, 2)

Lit_0_35 == FDivInt(35, 100)

Lit_0_30 == FDivInt(30, 100)

Lit_30 == FFromInt(30)

\* lines 49-52
HeadingBand(heading_ratio) ==
    IF FLeq(Lit_0_2, heading_ratio) /\ FLeq(heading_ratio, Lit_0_4) THEN 10
    ELSE IF FLeq(Lit_0_1, heading_ratio) /\ FLess(heading_ratio, Lit_0_2) THEN 5
    ELSE 0

\* lines 45-52: heading-to-paragraph ratio (10 points)
HeadingRatioPoints(bundle) ==
    LET headings   == bundle.content.headings
        paragraphs == bundle.content.paragraphs
    IN  IF paragraphs > 0
        THEN HeadingBand(FDivInt(headings.h1 + headings.h2 + headings.h3,
                                 paragraphs))
        ELSE 0

\* lines 57-60
ListBand(list_ratio) ==
    IF FLeq(Lit_0_1, list_ratio) /\ FLeq(list_ratio, Lit_0_3) THEN 10
    ELSE IF FLess(FZero, list_ratio) THEN 5
    ELSE 0

\* lines 54-60: list structure (10 points)
ListRatioPoints(bundle) ==
    IF bundle.content.lists > 0
    THEN ListBand(FDivInt(bundle.content.lists,
                          Max(1, bundle.content.paragraphs)))
    ELSE 0

\* lines 32-62: content structure sub-score
ContentScore(bundle) ==
    LET headings == bundle.content.headings
    IN  (IF headings.h1 = 1 THEN 5 ELSE 0)
        + (IF headings.h2 > 0 THEN 5 ELSE 0)
        + (IF headings.h3 > 0 THEN 5 ELSE 0)
        + HeadingRatioPoints(bundle)
        + ListRatioPoints(bundle)

\* lines 72-75
PrimaryBand(primary_ratio) ==
    IF FLeq(Lit_0_1, primary_ratio) /\ FLeq(primary_ratio, Lit_0_3) THEN 10
    ELSE IF FLess(FZero, primary_ratio) THEN 5
    ELSE 0

\* lines 69-75: primary CTA ratio (10 points)
PrimaryRatioPoints(bundle) ==
    IF bundle.ctas.total > 0
    THEN PrimaryBand(FDivInt(bundle.ctas.primary, bundle.ctas.total))
    ELSE 0

\* lines 80-83
AboveFoldBand(above_fold_ratio) ==
    IF FLeq(Lit_0_3, above_fold_ratio) THEN 10
    ELSE FTrunc(FMul(above_fold_ratio, Lit_30))

\* lines 69 and 77-83: above-fold placement (10 points)
AboveFoldPoints(bundle) ==
    IF bundle.ctas.total > 0 /\ bundle.ctas.above_fold > 0
    THEN AboveFoldBand(FDivInt(bundle.ctas.above_fold, bundle.ctas.total))
    ELSE 0

\* lines 88-94: validation_score + accessibility_score
FormPoints(forms) ==
    FAdd(FMul(forms.total_validation_score, Lit_7_5),
         FMul(forms.total_accessibility_score, Lit_7_5))

\* lines 85-96: the form points are added only when a form is present
EngagementTotal(bundle, cta_points) ==
    IF bundle.forms.count > 0
    THEN FAdd(FFromInt(cta_points), FormPoints(bundle.forms))
    ELSE FFromInt(cta_points)

\* lines 64-96: engagement sub-score (a double once a form is present)
EngagementScore(bundle) ==
    EngagementTotal(bundle,
                    PrimaryRatioPoints(bundle) + AboveFoldPoints(bundle))

\* lines 98-123 without the cap of line 120 on the form-label points
AccessibilityScoreUncapped(bundle) ==
    LET access_data == bundle.technical.accessibility
    IN  (IF access_data.alt_texts > 0 THEN 10 ELSE 0)
        + (IF access_data.aria_labels > 0 THEN 3 ELSE 0)
        + (IF access_data.aria_describedby > 0 THEN 3 ELSE 0)
        + (IF access_data.role_attributes > 0 THEN 2 ELSE 0)
        + (IF access_data.lang_attribute THEN 2 ELSE 0)
        + (IF bundle.forms.count > 0 THEN access_data.form_labels * 2 ELSE 0)

\* lines 98-123: accessibility sub-score
AccessibilityScore(bundle) ==
    LET access_data == bundle.technical.accessibility
        aria_score  == (IF access_data.aria_labels > 0 THEN 3 ELSE 0)
                       + (IF access_data.aria_describedby > 0 THEN 3 ELSE 0)
                       + (IF access_data.role_attributes > 0 THEN 2 ELSE 0)
                       + (IF access_data.lang_attribute THEN 2 ELSE 0)
    IN  (IF access_data.alt_texts > 0 THEN 10 ELSE 0)
        + aria_score
        + (IF bundle.forms.count > 0
           THEN Min(10, access_data.form_labels * 2) ELSE 0)

\* the weighted sum of lines 125-130 without the clamp of line 133
FinalScoreUnclamped(scores) ==
    FTrunc(FAdd(FAdd(FMul(FFromInt(scores.content), Lit_0_35),
                     FMul(scores.engagement, Lit_0_35)),
                FMul(FFromInt(scores.accessibility), Lit_0_30)))

\* lines 125-133: weighting, int() truncation and clamp
FinalScore(scores) ==
    Max(0, Min(100,
        FTrunc(FAdd(FAdd(FMul(FFromInt(scores.content), Lit_0_35),
                         FMul(scores.engagement, Lit_0_35)),
                    FMul(FFromInt(scores.accessibility), Lit_0_30)))))

\* line 142: the returned pair
ScoreResult(scores) ==
    [final_score |-> FinalScore(scores), scores |-> scores]

calculate_health_score(bundle) ==
    ScoreResult([content       |-> ContentScore(bundle),
                 engagement    |-> EngagementScore(bundle),
                 accessibility |-> AccessibilityScore(bundle)])

(***************************************************************************)
(* Generated text.  A text is a sequence of tokens and a token is a        *)
(* sequence of strings: a word or punctuation token has one element, a     *)
(* number token is its decimal digits.                                     *)
(***************************************************************************)
Digits == {"0", "1", "2", "3", "4", "5", "6", "7", "8", "9"}

DigitVal(d) ==
    CASE d = "0" -> 0 [] d = "1" -> 1 [] d = "2" -> 2 [] d = "3" -> 3
      [] d = "4" -> 4 [] d = "5" -> 5 [] d = "6" -> 6 [] d = "7" -> 7
      [] d = "8" -> 8 [] d = "9" -> 9

\* \d+ : a run of digits
IsNum(tok) == Len(tok) > 0 /\ \A i \in 1..Len(tok) : tok[i] \in Digits

\* int(match.group(1))
RECURSIVE IntOf(_)
IntOf(tok) ==
    IF Len(tok) = 0 THEN 0
    ELSE 10 * IntOf(SubSeq(tok, 1, Len(tok) - 1)) + DigitVal(tok[Len(tok)])

Space == <<" ">>

Newline == <<"\n">>

Percent == <<"/100">>

Marker == <<"**Insight">>

\* \s
IsWs(tok) == tok = Space \/ tok = Newline

\* re.IGNORECASE: case folding of the word tokens the texts use
LowerTok(tok) ==
    CASE tok = <<"UX_HEALTH_SCORE:">> -> <<"ux_health_score:">>
      [] tok = <<"UX Health Score:">> -> <<"ux health score:">>
      [] tok = <<"Score:">>           -> <<"score:">>
      [] OTHER                        -> tok

\* lines 637-645.  head: the folded tokens whose text ends with the literal
\* part of the pattern; gap: "ws*" for \s*, "sp" for one blank, "none";
\* tail: what must follow the digits.  A "line" pattern starts at [\n\r].
score_patterns ==
    << [head |-> {<<"ux_health_score:">>}, gap |-> "ws*", tail |-> <<>>],
       [head |-> {<<"ux health score:">>}, gap |-> "ws*", tail |-> <<>>],
       [head |-> {<<"ux health score:">>}, gap |-> "ws*", tail |-> <<Percent>>],
       [head |-> {Newline},                gap |-> "none", tail |-> <<Percent>>],
       [head |-> {<<"score of">>},         gap |-> "sp",  tail |-> <<>>],
       [head |-> {<<"score:">>, <<"ux_health_score:">>, <<"ux health score:">>},
                                           gap |-> "sp",  tail |-> <<>>],
       [head |-> {<<"score is">>},         gap |-> "sp",  tail |-> <<>>] >>

RECURSIVE SkipWs(_, _)
SkipWs(text, i) ==
    IF i <= Len(text) /\ IsWs(text[i]) THEN SkipWs(text, i + 1) ELSE i

\* position of the captured number when pattern p matches at token i, else 0
MatchAt(p, text, i) ==
    IF i > Len(text) \/ LowerTok(text[i]) \notin p.head THEN 0
    ELSE LET j == CASE p.gap = "ws*"  -> SkipWs(text, i + 1)
                    [] p.gap = "sp"   -> IF i + 1 <= Len(text) /\ text[i + 1] = Space
                                         THEN i + 2 ELSE Len(text) + 1
                    [] p.gap = "none" -> i + 1
         IN  IF j <= Len(text) /\ IsNum(text[j])
                /\ j + Len(p.tail) <= Len(text)
                /\ \A k \in 1..Len(p.tail) : text[j + k] = p.tail[k]
             THEN j ELSE 0

\* re.search: the leftmost match; 0 when the pattern matches nowhere
re_search(p, text) ==
    LET hits == {i \in 1..Len(text) : MatchAt(p, text, i) # 0}
    IN  IF hits = {} THEN 0
        ELSE MatchAt(p, text, CHOOSE i \in hits : \A h \in hits : i <= h)

None == -1

\* the loop of lines 647-653 without its break: the last pattern of the list
\* that matches decides
RECURSIVE ExtractFromNoBreak(_, _)
ExtractFromNoBreak(text, k) ==
    IF k > Len(score_patterns) THEN None
    ELSE LET pos == re_search(score_patterns[k], text)
             later == ExtractFromNoBreak(text, k + 1)
         IN  IF later # None THEN later
             ELSE IF pos # 0 THEN IntOf(text[pos]) ELSE None

\* lines 647-653: first pattern of the list that matches, then break
RECURSIVE ExtractFrom(_, _)
ExtractFrom(text, k) ==
    IF k > Len(score_patterns) THEN None
    ELSE LET pos == re_search(score_patterns[k], text)
         IN  IF pos # 0 THEN IntOf(text[pos]) ELSE ExtractFrom(text, k + 1)

extracted_score_of(text) == ExtractFrom(text, 1)

\* str.split(marker): the pieces between occurrences of the marker
RECURSIVE split(_, _)
split(text, sep) ==
    LET hits == {i \in 1..Len(text) : text[i] = sep}
    IN  IF hits = {} THEN <<text>>
        ELSE LET i == CHOOSE h \in hits : \A g \in hits : h <= g
             IN  <<SubSeq(text, 1, i - 1)>>
                 \o split(SubSeq(text, i + 1, Len(text)), sep)

\* sep.join(parts)
RECURSIVE join(_, _)
join(parts, sep) ==
    IF Len(parts) = 0 THEN <<>>
    ELSE IF Len(parts) = 1 THEN parts[1]
    ELSE parts[1] \o <<sep>> \o join(Tail(parts), sep)

\* str.strip()
RECURSIVE strip(_)
strip(text) ==
    IF Len(text) = 0 THEN text
    ELSE IF IsWs(text[1]) THEN strip(Tail(text))
    ELSE IF IsWs(text[Len(text)]) THEN strip(SubSeq(text, 1, Len(text) - 1))
    ELSE text

(***************************************************************************)
(* URLs: a URL is a sequence of string tokens ("https", ":", "//", host).  *)
(***************************************************************************)
\* urllib.parse.urlparse as used on line 544: the scheme is the token before
\* a leading ":", the netloc the token after a "//" that follows it
urlparse(u) ==
    LET has_scheme == Len(u) >= 2 /\ u[2] = ":" /\ u[1] \notin {":", "//", "/"}
        rest       == IF has_scheme THEN SubSeq(u, 3, Len(u)) ELSE u
    IN  [scheme |-> IF has_scheme THEN u[1] ELSE "",
         netloc |-> IF Len(rest) >= 2 /\ rest[1] = "//" /\ rest[2] # "/"
                    THEN rest[2] ELSE ""]

\* a validation that looks at the scheme alone
valid_url_scheme_only(u) == urlparse(u).scheme # ""

\* line 545 negated: the URL passes validation
valid_url(u) ==
    LET parsed_url == urlparse(u)
    IN  parsed_url.scheme # "" /\ parsed_url.netloc # ""

(***************************************************************************)
(* Inputs                                                                  *)
(***************************************************************************)
\* the value of site_data while no bundle has been fetched
NoSiteData == [none |-> TRUE]

Bundle(content, ctas, forms, access) ==
    [content   |-> content,
     ctas      |-> ctas,
     forms     |-> forms,
     technical |-> [accessibility |-> access]]

MaxH1 == 2

MaxLists == 2

MaxFormNum == 3

MaxFormDen == 2

BigFormScore == 100

MaxFormLabels == 6

ParagraphCounts == {0, 5, 10}

ContentParts ==
    {[headings |-> [h1 |-> a, h2 |-> b, h3 |-> c], paragraphs |-> p, lists |-> l] :
        a \in 0..MaxH1, b \in 0..1, c \in 0..1, p \in ParagraphCounts,
        l \in 0..MaxLists}

\* primary and above_fold count CTAs of the list, so neither exceeds total
CtaParts ==
    {c \in {[total |-> t, primary |-> p, above_fold |-> a] :
                t \in {0, 4, 10}, p \in {0, 1, 4}, a \in {0, 1, 2, 4}} :
        c.primary <= c.total /\ c.above_fold <= c.total}

FormScoreValues ==
    {FDivInt(n, d) : n \in 0..MaxFormNum, d \in 1..MaxFormDen}
    \cup {FFromInt(BigFormScore)}

NoForms ==
    [count |-> 0, total_validation_score |-> FZero,
     total_accessibility_score |-> FZero]

FormParts ==
    {NoForms}
    \cup {[count |-> 1, total_validation_score |-> v,
           total_accessibility_score |-> a] :
            v \in FormScoreValues, a \in FormScoreValues}

AccessParts ==
    {[alt_texts |-> x[1], aria_labels |-> x[2], aria_describedby |-> x[3],
      role_attributes |-> x[4], lang_attribute |-> g, form_labels |-> f] :
        x \in [1..4 -> 0..1], g \in BOOLEAN, f \in {0, 3, MaxFormLabels}}

\* corner parts: the all-zero page and the page that earns every point
LoContent == [headings |-> [h1 |-> 0, h2 |-> 0, h3 |-> 0], paragraphs |-> 0, lists |-> 0]

HiContent == [headings |-> [h1 |-> 1, h2 |-> 1, h3 |-> 1], paragraphs |-> 10, lists |-> 1]

LoCtas == [total |-> 0, primary |-> 0, above_fold |-> 0]

HiCtas == [total |-> 4, primary |-> 1, above_fold |-> 2]

HiForms ==
    [count |-> 1, total_validation_score |-> FFromInt(1),
     total_accessibility_score |-> FFromInt(1)]

BigForms ==
    [count |-> 1, total_validation_score |-> FFromInt(BigFormScore),
     total_accessibility_score |-> FFromInt(BigFormScore)]

LoAccess ==
    [alt_texts |-> 0, aria_labels |-> 0, aria_describedby |-> 0,
     role_attributes |-> 0, lang_attribute |-> FALSE, form_labels |-> 0]

HiAccess ==
    [alt_texts |-> 1, aria_labels |-> 1, aria_describedby |-> 1,
     role_attributes |-> 1, lang_attribute |-> TRUE, form_labels |-> MaxFormLabels]

\* the bundles the scorer is applied to: one part ranges over all its values
\* while the other parts sit together at a corner
Corners ==
    {[content |-> LoContent, ctas |-> LoCtas, forms |-> NoForms, access |-> LoAccess],
     [content |-> HiContent, ctas |-> HiCtas, forms |-> HiForms, access |-> HiAccess],
     [content |-> HiContent, ctas |-> HiCtas, forms |-> BigForms, access |-> HiAccess]}

Bundles ==
    {Bundle(c, k.ctas, k.forms, k.access) : c \in ContentParts, k \in Corners}
    \cup {Bundle(k.content, t, k.forms, k.access) : t \in CtaParts, k \in Corners}
    \cup {Bundle(k.content, k.ctas, f, k.access) : f \in FormParts, k \in Corners}
    \cup {Bundle(k.content, k.ctas, k.forms, a) : a \in AccessParts, k \in Corners}

\* the page of the end-to-end scenario: 4 CTAs (1 primary, 2 above the fold),
\* one form scoring 0.5 / 0.5, h1 = 1, h2 = 3, 10 paragraphs, 2 lists
ScenarioPage ==
    Bundle([headings |-> [h1 |-> 1, h2 |-> 3, h3 |-> 0], paragraphs |-> 10, lists |-> 2],
           [total |-> 4, primary |-> 1, above_fold |-> 2],
           [count |-> 1, total_validation_score |-> FDivInt(1, 2),
            total_accessibility_score |-> FDivInt(1, 2)],
           LoAccess)

EmptyPage == Bundle(LoContent, LoCtas, NoForms, LoAccess)

SessionBundles == {EmptyPage, ScenarioPage}

Nums == {<<"0">>, <<"4", "2">>, <<"1", "5", "0">>}

ClauseKinds == {"uxu", "uxs", "line", "bare", "of", "colon", "is"}

Clause(kind, n) ==
    CASE kind = "uxu"   -> <<<<"UX_HEALTH_SCORE:">>, Space, n>>
      [] kind = "uxs"   -> <<<<"UX Health Score:">>, Space, n, Percent>>
      [] kind = "line"  -> <<Newline, n, Percent>>
      [] kind = "bare"  -> <<n, Percent>>
      [] kind = "of"    -> <<<<"score of">>, Space, n>>
      [] kind = "colon" -> <<<<"Score:">>, Space, n>>
      [] kind = "is"    -> <<<<"score is">>, Space, n>>

Clauses == {Clause(k, n) : k \in ClauseKinds, n \in Nums}

\* texts of at most k score clauses, separated by a blank
RECURSIVE ClauseTexts(_)
ClauseTexts(k) ==
    IF k = 0 THEN {<<>>}
    ELSE ClauseTexts(k - 1)
         \cup {IF Len(t) = 0 THEN c ELSE t \o <<Space>> \o c :
                 t \in ClauseTexts(k - 1), c \in Clauses}

Words == {<<"a">>, <<"b">>}

\* texts of at most k insight segments "**Insight <word>\n"
RECURSIVE SegmentTexts(_)
SegmentTexts(k) ==
    IF k = 0 THEN {<<>>}
    ELSE SegmentTexts(k - 1)
         \cup {t \o <<Marker, Space, w, Newline>> :
                 t \in SegmentTexts(k - 1), w \in Words}

Texts(preambles, tails) ==
    {IF Len(c) > 0 /\ Len(s) > 0 THEN c \o <<Newline>> \o s ELSE c \o s :
        c \in preambles, s \in tails}

MaxClauses == 2

MaxSegments == 1

\* the texts score extraction is examined on: up to MaxClauses score clauses
\* and at most one insight segment
ExtractTexts == Texts(ClauseTexts(MaxClauses), SegmentTexts(1))

\* the replies of the generation collaborator in a session: no score clause
\* or one of three kinds, followed by up to MaxSegments insight segments
SessionClauses == {Clause(k, n) : k \in {"uxu", "line", "bare"}, n \in Nums}

SessionTexts == Texts({<<>>} \cup SessionClauses, SegmentTexts(MaxSegments))

Urls ==
    {<<"https", ":", "//", "a.com">>, <<"https", ":", "//", "b.com">>,
     <<"a.com">>, <<"//", "a.com">>, <<"https", ":", "a.com">>,
     <<"https", ":", "//">>}

FetchErrors == {"ConnectionError", "404 Client Error"}

FetchResults ==
    {[raises |-> c, site_data |-> NoSiteData] : c \in FetchErrors}
    \cup {[raises |-> "", site_data |-> b] : b \in SessionBundles}

GenResults ==
    {[raises |-> "ResourceExhausted", text |-> <<>>]}
    \cup {[raises |-> "", text |-> t] : t \in SessionTexts}

(***************************************************************************)
(* The pure functions of the handler, tabulated once over the session's    *)
(* inputs; outside the table the function itself is evaluated              *)
(***************************************************************************)
ScoreTable == [b \in SessionBundles |-> calculate_health_score(b)]

health_score_of(bundle) ==
    IF bundle \in DOMAIN ScoreTable
    THEN ScoreTable[bundle]
    ELSE calculate_health_score(bundle)

ExtractTable == [t \in SessionTexts |-> extracted_score_of(t)]

extract_score(text) ==
    IF text \in DOMAIN ExtractTable
    THEN ExtractTable[text]
    ELSE extracted_score_of(text)

SplitTable == [t \in SessionTexts |-> split(t, Marker)]

split_insights(text) ==
    IF text \in DOMAIN SplitTable THEN SplitTable[text] ELSE split(text, Marker)

(***************************************************************************)
(* The "Analyze Website" handler, lines 540-685                            *)
(***************************************************************************)
\* a handler that fetches a second time after a failed fetch
collaborator_calls_retry(fetch) ==
    IF fetch.raises # "" THEN <<"fetch", "fetch">> ELSE <<"fetch", "generate">>

\* lines 553 and 628: the collaborators a run with a valid URL calls, in
\* order; fetch_website_content issues one requests.get and raises on failure
collaborator_calls(fetch) ==
    IF fetch.raises # "" THEN <<"fetch">> ELSE <<"fetch", "generate">>

\* lines 655-669: the value assigned to st.session_state.ux_health_score
new_health_score(extracted, bundle) ==
    IF extracted # None /\ extracted # 0
    THEN IF 1 <= extracted /\ extracted <= 100
         THEN extracted
         ELSE Min(100, Max(1, extracted))
    ELSE health_score_of(bundle).final_score

\* line 674: the text kept for the URL
stored_insights(text) ==
    <<Marker>> \o join(Tail(split_insights(text)), Marker)

\* line 674 without the check of line 673: the text is kept in any case
new_analysis_data_unchecked(data, u, text) ==
    [k \in DOMAIN data \cup {u} |->
        IF k = u THEN stored_insights(text) ELSE data[k]]

\* lines 672-678: the mapping after the segmentation check
new_analysis_data(data, u, text) ==
    IF Len(split_insights(text)) > 1
    THEN [k \in DOMAIN data \cup {u} |->
            IF k = u THEN stored_insights(text) ELSE data[k]]
    ELSE data

(***************************************************************************)
(* Display, lines 841-890                                                  *)
(***************************************************************************)
DefaultScore == 75

\* lines 841-857
display_health_score(score, bundle) ==
    IF score # None
    THEN [final_score |-> score, source |-> "ai_analysis"]
    ELSE IF bundle # NoSiteData
    THEN [final_score |-> calculate_health_score(bundle).final_score,
          source |-> "calculated"]
    ELSE [final_score |-> DefaultScore, source |-> "default"]

\* line 887
issues_of(analysis_content) ==
    LET parts == split(analysis_content, Marker)
    IN  SelectSeq([i \in 1..Len(parts) |-> strip(parts[i])],
                  LAMBDA issue : Len(issue) > 0)

(***************************************************************************)
(* display_issue_card, lines 687-822.  The tokens of a line are separated  *)
(* by blanks; a label token is the label with its colon.                   *)
(***************************************************************************)
Bold == <<"**">>

Bullet == <<"-">>

TitleNumber == <<"1:">>

ObservationLabel == <<"Observation:">>

ImpactLabel == <<"Impact:">>

FixLabel == <<"Suggested Fix:">>

ImprovementLabel == <<"Expected Improvement:">>

\* the word "impact" inside running text
ImpactWord == <<"impact">>

High == <<"High">>

Low == <<"Low">>

\* a word with markup characters, and what lines 775-777 turn it into
Markup == <<"<b>">>

EscapedMarkup == <<"&lt;b&gt;">>

\* the tokens that contain a ':'
ColonTokens ==
    {TitleNumber, ObservationLabel, ImpactLabel, FixLabel, ImprovementLabel}

HasTok(line, toks) == \E i \in 1..Len(line) : line[i] \in toks

\* least index >= from of a token of toks, 0 if there is none
FirstIndex(text, toks, from) ==
    IF \E i \in from..Len(text) : text[i] \in toks
    THEN CHOOSE i \in from..Len(text) :
            text[i] \in toks /\ \A j \in from..(i - 1) : text[j] \notin toks
    ELSE 0

\* str.replace('**', '')
RemoveBold(line) == SelectSeq(line, LAMBDA tok : tok # Bold)

\* lines 690 and 787: the text of the title after "Insight <index>: "
AfterColon(title, at) ==
    IF at = 0 THEN title ELSE strip(SubSeq(title, at + 1, Len(title)))

TitleText(first_line) ==
    AfterColon(strip(RemoveBold(first_line)),
               FirstIndex(strip(RemoveBold(first_line)), ColonTokens, 1))

\* re.sub(r'\*?\*?<label>', '', line): every label, with asterisks before it
RECURSIVE RemoveLabels(_, _)
RemoveLabels(line, label) ==
    IF Len(line) = 0 THEN line
    ELSE IF line[1] = label THEN RemoveLabels(Tail(line), label)
    ELSE IF Len(line) >= 2 /\ line[1] = Bold /\ line[2] = label
    THEN RemoveLabels(SubSeq(line, 3, Len(line)), label)
    ELSE <<line[1]>> \o RemoveLabels(Tail(line), label)

\* the index after a match of ^\s*-\s*\*?\*?<label> at the start of the
\* line, 0 if it does not match there
AfterLabelAt(line, label, k) ==
    IF k <= Len(line) /\ line[k] = label THEN k + 1
    ELSE IF k + 1 <= Len(line) /\ line[k] = Bold /\ line[k + 1] = label
    THEN k + 2
    ELSE 0

AfterBulletLabel(line, label) ==
    IF Len(line) > 0 /\ line[1] = Bullet
    THEN AfterLabelAt(line, label, SkipWs(line, 2))
    ELSE 0

SubLabelFrom(line, label, k) ==
    IF k = 0 THEN RemoveLabels(line, label)
    ELSE RemoveLabels(SubSeq(line, k, Len(line)), label)

\* lines 709, 716 and 724: re.sub(...).strip()
sub_label(line, label) ==
    strip(SubLabelFrom(line, label, AfterBulletLabel(line, label)))

\* re.sub(r'^[bullets, digits, dots]+\s*', '', line).strip()
RECURSIVE DropBullets(_)
DropBullets(line) ==
    IF Len(line) > 0 /\ line[1] = Bullet THEN DropBullets(Tail(line))
    ELSE strip(line)

NoSections ==
    [section |-> "", observation |-> <<>>, impact |-> <<>>,
     suggested_fix |-> <<>>, expected_improvement |-> <<>>]

\* lines 707-712: the text after the label, or else the next line
ObservationLine(st, text, lines, j) ==
    [st EXCEPT !.section = "observation",
               !.observation = IF Len(text) = 0 /\ j < Len(lines)
                               THEN strip(lines[j + 1]) ELSE text]

AppendFix(st, item) ==
    IF Len(item) > 0
    THEN [st EXCEPT !.suggested_fix = Append(st.suggested_fix, item)]
    ELSE st

\* lines 733-740
FixLine(st, line) ==
    IF line[1] = Bullet THEN AppendFix(st, DropBullets(line))
    ELSE IF ~HasTok(line, {ImprovementLabel}) THEN AppendFix(st, line)
    ELSE st

\* lines 702-743: one line of the segment after the title line
CardLine(st, line, lines, j) ==
    IF Len(line) = 0 THEN st
    ELSE IF HasTok(line, {ObservationLabel})
    THEN ObservationLine(st, sub_label(line, ObservationLabel), lines, j)
    ELSE IF HasTok(line, {ImpactLabel, ImpactWord})
    THEN [st EXCEPT !.section = "impact",
                    !.impact = sub_label(line, ImpactLabel)]
    ELSE IF HasTok(line, {FixLabel})
    THEN [st EXCEPT !.section = "suggested_fix"]
    ELSE IF HasTok(line, {ImprovementLabel})
    THEN [st EXCEPT !.section = "expected_improvement",
                    !.expected_improvement = sub_label(line, ImprovementLabel)]
    ELSE IF st.section = "observation" /\ Len(st.observation) = 0
    THEN [st EXCEPT !.observation = line]
    ELSE IF st.section = "impact" /\ Len(st.impact) = 0
    THEN [st EXCEPT !.impact = line]
    ELSE IF st.section = "suggested_fix" THEN FixLine(st, line)
    ELSE IF st.section = "expected_improvement"
            /\ Len(st.expected_improvement) = 0
    THEN [st EXCEPT !.expected_improvement = line]
    ELSE st

\* lines 701-743: the loop over lines[1:]
RECURSIVE CardLines(_, _, _)
CardLines(st, lines, j) ==
    IF j > Len(lines) THEN st
    ELSE CardLines(CardLine(st, strip(lines[j]), lines, j), lines, j + 1)

\* group 1 of re.search(<start>(.*?)(?:<stop>|$), issue_content, re.DOTALL),
\* stripped; empty when the pattern does not match
CaptureBetween(text, from, to) ==
    IF from = 0 THEN <<>>
    ELSE strip(SubSeq(text, from + 1, IF to = 0 THEN Len(text) ELSE to - 1))

CaptureFrom(text, start, stop, from) ==
    CaptureBetween(text, from,
                   IF from = 0 THEN 0 ELSE FirstIndex(text, stop, from + 1))

Capture(text, start, stop) ==
    CaptureFrom(text, start, stop, FirstIndex(text, start, 1))

\* lines 762-766: the bullet of a line is removed, and the rest is kept even
\* when nothing is left
FallbackFixLine(fixes, line) ==
    IF Len(line) > 0 /\ line[1] = Bullet THEN Append(fixes, DropBullets(line))
    ELSE IF Len(line) > 0 THEN Append(fixes, line)
    ELSE fixes

RECURSIVE FallbackFixLines(_, _, _)
FallbackFixLines(fixes, lines, j) ==
    IF j > Len(lines) THEN fixes
    ELSE FallbackFixLines(FallbackFixLine(fixes, strip(lines[j])), lines, j + 1)

\* lines 756-766
FallbackFixes(issue_content) ==
    FallbackFixLines(<<>>,
                     split(Capture(issue_content, {FixLabel}, {ImprovementLabel}),
                           Newline),
                     1)

\* lines 745-771: fields still empty are looked for in the whole segment
WithFallbacks(st, issue_content) ==
    [st EXCEPT
       !.observation =
          IF Len(st.observation) = 0
          THEN Capture(issue_content, {ObservationLabel}, {ImpactLabel, ImpactWord})
          ELSE st.observation,
       !.impact =
          IF Len(st.impact) = 0
          THEN Capture(issue_content, {ImpactLabel}, {FixLabel})
          ELSE st.impact,
       !.suggested_fix =
          IF Len(st.suggested_fix) = 0
          THEN FallbackFixes(issue_content)
          ELSE st.suggested_fix,
       !.expected_improvement =
          IF Len(st.expected_improvement) = 0
          THEN Capture(issue_content, {ImprovementLabel}, {})
          ELSE st.expected_improvement]

\* lines 775-777: replace('<', '&lt;').replace('>', '&gt;')
escape(text) ==
    [i \in 1..Len(text) |-> IF text[i] = Markup THEN EscapedMarkup ELSE text[i]]

Escaped(st) ==
    [st EXCEPT
       !.observation = escape(st.observation),
       !.impact = escape(st.impact),
       !.expected_improvement = escape(st.expected_improvement),
       !.suggested_fix = [i \in 1..Len(st.suggested_fix) |->
                             escape(st.suggested_fix[i])]]

\* lines 780-784
impact_level(impact) ==
    IF HasTok(impact, {High}) THEN "high"
    ELSE IF HasTok(impact, {Low}) THEN "low"
    ELSE "medium"

NoObservation == <<<<"No specific observation provided">>>>

NoImpact == <<<<"Impact level not specified">>>>

NoFixes == <<<<"No specific fixes suggested">>>>

NoImprovement == <<<<"No specific improvement metrics provided">>>>

\* the card without the placeholders of lines 789-797
CardWithoutPlaceholders(st, title, index) ==
    [index         |-> index,
     title         |-> title,
     impact_level  |-> impact_level(st.impact),
     observation   |-> st.observation,
     impact        |-> st.impact,
     suggested_fix |-> st.suggested_fix,
     expected_improvement |-> st.expected_improvement]

\* lines 779-821: the card that is rendered
Card(st, title, index) ==
    [index         |-> index,
     title         |-> title,
     impact_level  |-> impact_level(st.impact),
     observation   |-> IF Len(st.observation) = 0 THEN NoObservation
                       ELSE st.observation,
     impact        |-> IF Len(st.impact) = 0 THEN NoImpact ELSE st.impact,
     suggested_fix |-> IF Len(st.suggested_fix) = 0 THEN <<NoFixes>>
                       ELSE st.suggested_fix,
     expected_improvement |->
        IF Len(st.expected_improvement) = 0 THEN NoImprovement
        ELSE st.expected_improvement]

CardOfLines(issue_content, lines, index) ==
    Card(Escaped(WithFallbacks(CardLines(NoSections, lines, 2), issue_content)),
         TitleText(lines[1]), index)

display_issue_card(issue_content, index) ==
    CardOfLines(issue_content, split(issue_content, Newline), index)

\* lines 889-890: one card per issue, numbered from 1
cards_of(issues) ==
    [i \in 1..Len(issues) |-> display_issue_card(issues[i], i)]

NotShown == [rendered |-> FALSE, final_score |-> None, source |-> "",
             issues |-> <<>>, cards |-> <<>>]

\* lines 871-890: what the results section renders for the URL in the input
\* box; display_health_score is called without site_data (line 878)
display_results(data, u, score) ==
    IF u \in DOMAIN data /\ Len(data[u]) > 0
    THEN LET health == display_health_score(score, NoSiteData)
         IN  [rendered |-> TRUE, final_score |-> health.final_score,
              source |-> health.source, issues |-> issues_of(data[u]),
              cards |-> cards_of(issues_of(data[u]))]
    ELSE NotShown

(***************************************************************************)
(* Initial state                                                           *)
(***************************************************************************)
session == <<analysis_data, current_url, ux_health_score>>

run == <<url, button, calls, error, fetch_result, extracted_score, n_parts,
        shown>>

scoring == <<score_first, score_last, n_calls>>

inputs == <<response_text, page>>

\* the value of page while no page is being analysed
NoPage == [none |-> TRUE]

vars == <<analysis_data, current_url, ux_health_score, url, button, calls,
          error, fetch_result, site_data, extracted_score, n_parts, shown, response_text,
          page,
          score_first, score_last, n_calls>>

NoResult == [none |-> TRUE]

EmptyData == [k \in {} |-> <<>>]

\* lines 480-488 and an empty URL box
InitSession ==
    /\ analysis_data = EmptyData
    /\ current_url = <<>>
    /\ ux_health_score = None
    /\ url = <<>>

InitRun ==
    /\ button = FALSE
    /\ calls = <<>>
    /\ error = <<>>
    /\ fetch_result = ""
    /\ extracted_score = None
    /\ n_parts = 0
    /\ shown = NotShown

InitScoring ==
    /\ score_first = NoResult
    /\ score_last = NoResult
    /\ n_calls = 0

Init ==
    /\ InitSession
    /\ InitRun
    /\ InitScoring
    /\ site_data = NoSiteData
    /\ response_text = <<>>
    /\ page = NoPage

(***************************************************************************)
(* Script runs                                                             *)
(***************************************************************************)
\* the user edits the URL box: the script reruns with the button not pressed,
\* so only the sidebar and the results section (lines 871-893) execute
EnterUrl(u) ==
    /\ url' = u
    /\ button' = FALSE
    /\ calls' = <<>>
    /\ error' = <<>>
    /\ fetch_result' = ""
    /\ extracted_score' = None
    /\ n_parts' = 0
    /\ site_data' = NoSiteData
    /\ shown' = display_results(analysis_data, u, ux_health_score)
    /\ UNCHANGED <<session, inputs, scoring>>

\* line 546
InvalidUrlError == <<"Please enter a valid URL including http:// or https://">>

\* line 677
FormatError == <<"Failed to generate proper analysis format">>

\* line 540: the "Analyze Website" button is clicked with the current content
\* of the URL box
AnalyzeClicked ==
    /\ button' = TRUE
    /\ url' = url
    /\ UNCHANGED <<inputs, scoring>>

\* lines 544-547: st.error and st.stop() before anything else happens
RejectUrl ==
    /\ AnalyzeClicked
    /\ ~valid_url(url)
    /\ error' = InvalidUrlError
    /\ calls' = <<>>
    /\ fetch_result' = ""
    /\ extracted_score' = None
    /\ n_parts' = 0
    /\ site_data' = NoSiteData
    /\ shown' = NotShown
    /\ UNCHANGED session

\* lines 550-553, 314-315 and 683-685: the fetch raises
FetchFails(fetch) ==
    /\ AnalyzeClicked
    /\ valid_url(url)
    /\ fetch.raises # ""
    /\ current_url' = url
    /\ calls' = collaborator_calls(fetch)
    /\ fetch_result' = fetch.raises
    /\ error' = <<"Error analyzing website: ", "Failed to fetch website: ",
                  fetch.raises>>
    /\ extracted_score' = None
    /\ n_parts' = 0
    /\ site_data' = NoSiteData
    /\ shown' = NotShown
    /\ UNCHANGED <<analysis_data, ux_health_score>>

\* lines 628 and 683-685: generate_content raises
GenerationFails(fetch, gen) ==
    /\ AnalyzeClicked
    /\ valid_url(url)
    /\ fetch.raises = ""
    /\ gen.raises # ""
    /\ current_url' = url
    /\ calls' = collaborator_calls(fetch)
    /\ fetch_result' = "ok"
    /\ error' = <<"Error analyzing website: ", gen.raises>>
    /\ extracted_score' = None
    /\ n_parts' = 0
    /\ site_data' = fetch.site_data
    /\ shown' = NotShown
    /\ UNCHANGED <<analysis_data, ux_health_score>>

\* lines 629 and 679-681: the response has no text
GenerationEmpty(fetch, gen) ==
    /\ AnalyzeClicked
    /\ valid_url(url)
    /\ fetch.raises = ""
    /\ gen.raises = ""
    /\ Len(gen.text) = 0
    /\ current_url' = url
    /\ calls' = collaborator_calls(fetch)
    /\ fetch_result' = "ok"
    /\ error' = <<"Failed to generate analysis">>
    /\ extracted_score' = None
    /\ n_parts' = 0
    /\ site_data' = fetch.site_data
    /\ shown' = NotShown
    /\ UNCHANGED <<analysis_data, ux_health_score>>

\* lines 629-678, then lines 871-893 unless st.stop() ended the script
ParseResponse(fetch, gen) ==
    /\ AnalyzeClicked
    /\ valid_url(url)
    /\ fetch.raises = ""
    /\ gen.raises = ""
    /\ Len(gen.text) > 0
    /\ current_url' = url
    /\ calls' = collaborator_calls(fetch)
    /\ fetch_result' = "ok"
    /\ site_data' = fetch.site_data
    /\ extracted_score' = extract_score(gen.text)
    /\ ux_health_score' = new_health_score(extracted_score', fetch.site_data)
    /\ n_parts' = Len(split_insights(gen.text))
    /\ analysis_data' = new_analysis_data(analysis_data, url, gen.text)
    /\ IF n_parts' > 1
       THEN /\ error' = <<>>
            /\ shown' = display_results(analysis_data', url, ux_health_score')
       ELSE /\ error' = FormatError
            /\ shown' = NotShown

Next ==
    \/ \E u \in Urls : EnterUrl(u)
    \/ RejectUrl
    \/ \E fetch \in FetchResults : FetchFails(fetch)
    \/ \E fetch \in FetchResults, gen \in GenResults : GenerationFails(fetch, gen)
    \/ \E fetch \in FetchResults, gen \in GenResults : GenerationEmpty(fetch, gen)
    \/ \E fetch \in FetchResults, gen \in GenResults : ParseResponse(fetch, gen)

Spec == Init /\ [][Next]_vars

(***************************************************************************)
(* calculate_health_score on its own: the scorer is called repeatedly on   *)
(* one bundle drawn from Bundles                                           *)
(***************************************************************************)
MaxCalls == 2

InitScore ==
    /\ InitSession
    /\ InitRun
    /\ InitScoring
    /\ site_data \in Bundles
    /\ response_text = <<>>
    /\ page = NoPage

\* lines 24-142: the function reads site_data and returns (final_score, scores);
\* it assigns to nothing but its own locals
CallScorer ==
    /\ n_calls < MaxCalls
    /\ score_last' = calculate_health_score(site_data)
    /\ score_first' = IF n_calls = 0 THEN score_last' ELSE score_first
    /\ n_calls' = n_calls + 1
    /\ UNCHANGED <<session, run, site_data, inputs>>

NextScore == CallScorer

SpecScore == InitScore /\ [][NextScore]_vars

(***************************************************************************)
(* Score extraction and segmentation on their own (lines 637-653, 672)     *)
(***************************************************************************)
InitExtract ==
    /\ InitSession
    /\ InitRun
    /\ InitScoring
    /\ site_data = NoSiteData
    /\ response_text \in ExtractTexts
    /\ page = NoPage

ExtractScore ==
    /\ n_parts = 0
    /\ extracted_score' = extracted_score_of(response_text)
    /\ n_parts' = Len(split(response_text, Marker))
    /\ UNCHANGED <<session, url, button, calls, error, fetch_result, shown,
                   site_data, inputs, scoring>>

NextExtract == ExtractScore

SpecExtract == InitExtract /\ [][NextExtract]_vars

(***************************************************************************)
(* fetch_website_content (lines 144-315) applied to a parsed page.  A page *)
(* is the elements BeautifulSoup finds: the clickable elements that match  *)
(* a CTA pattern (in document order, each with what lines 172-187 read off *)
(* its classes, style and position), the forms with their fields, and the  *)
(* element counts.  The navigation, responsive and performance flags are   *)
(* left out: nothing in the program reads them back.                       *)
(***************************************************************************)
\* num * 2^x / d, correctly rounded
FDivAt(num, d, x) ==
    FRound(BigDivSmall(num, d), x, BigModSmall(num, d) # 0)

\* a / d for a float a >= 0 and a Python int d > 0
FDivByInt(a, d) ==
    IF Len(a.m) = 0 THEN FZero
    ELSE FDivAt(BigShl(a.m, DivGuardBits), d, a.e - DivGuardBits)

\* lines 177-183
prominence_score(elem) ==
    (IF elem.is_primary THEN 3 ELSE 0)
    + (IF elem.is_secondary THEN 2 ELSE 0)
    + (IF elem.has_contrast THEN 1 ELSE 0)

\* line 194
location(elem) ==
    IF elem.is_in_hero THEN "hero"
    ELSE IF elem.is_above_fold THEN "above_fold"
    ELSE "below_fold"

\* lines 189-196 (the text of the element is not kept)
cta_of(elem) ==
    [prominence_score |-> prominence_score(elem),
     is_primary       |-> elem.is_primary,
     is_secondary     |-> elem.is_secondary,
     location         |-> location(elem),
     has_contrast     |-> elem.has_contrast]

\* False < True
BoolRank(b) == IF b THEN 1 ELSE 0

\* line 199: the sort key, a tuple compared lexicographically
sort_key(c) ==
    <<0 - c.prominence_score, BoolRank(c.location # "hero"),
      BoolRank(c.location # "above_fold")>>

KeyLess(a, b) ==
    \/ a[1] < b[1]
    \/ a[1] = b[1] /\ a[2] < b[2]
    \/ a[1] = b[1] /\ a[2] = b[2] /\ a[3] < b[3]

\* c placed after every element whose key is not greater than its own
InsertCta(sorted, c) ==
    LET later == {i \in 1..Len(sorted) : KeyLess(sort_key(c), sort_key(sorted[i]))}
        at    == IF later = {} THEN Len(sorted) + 1
                 ELSE CHOOSE i \in later : \A j \in later : i <= j
    IN  SubSeq(sorted, 1, at - 1) \o <<c>> \o SubSeq(sorted, at, Len(sorted))

RECURSIVE SortInto(_, _)
SortInto(sorted, rest) ==
    IF Len(rest) = 0 THEN sorted
    ELSE SortInto(InsertCta(sorted, Head(rest)), Tail(rest))

\* the list left in document order
unsorted_ctas(ctas) == ctas

\* line 199: list.sort(key=...), a stable sort
sort_ctas(ctas) == SortInto(<<>>, ctas)

CountWhere(seq, P(_)) == Cardinality({i \in 1..Len(seq) : P(seq[i])})

\* lines 278-285
cta_summary(ctas) ==
    [total      |-> Len(ctas),
     prominent  |-> CountWhere(ctas, LAMBDA c : c.prominence_score >= 3),
     above_fold |-> CountWhere(ctas, LAMBDA c : c.location \in {"hero", "above_fold"}),
     primary    |-> CountWhere(ctas, LAMBDA c : c.is_primary),
     secondary  |-> CountWhere(ctas, LAMBDA c : c.is_secondary),
     elements   |-> SubSeq(ctas, 1, Min(5, Len(ctas)))]

\* lines 221-229 and 232-238: the names of the attributes that are checked
ValidationAttrs ==
    {"required", "pattern", "minlength", "maxlength", "min", "max", "step"}

AccessibilityAttrs ==
    {"has_label", "has_placeholder", "has_aria_label", "has_aria_describedby",
     "has_error_message"}

\* lines 240-246: a field carries the set of its attributes that are true
field_analysis_of(field) ==
    [validations         |-> field.validations,
     accessibility       |-> field.accessibility,
     validation_score    |-> Cardinality(field.validations),
     accessibility_score |-> Cardinality(field.accessibility)]

RECURSIVE SumValidation(_)
SumValidation(field_analysis) ==
    IF Len(field_analysis) = 0 THEN 0
    ELSE Head(field_analysis).validation_score + SumValidation(Tail(field_analysis))

RECURSIVE SumAccessibility(_)
SumAccessibility(field_analysis) ==
    IF Len(field_analysis) = 0 THEN 0
    ELSE Head(field_analysis).accessibility_score
         + SumAccessibility(Tail(field_analysis))

\* lines 251-252
form_score(total, field_analysis) ==
    IF Len(field_analysis) > 0
    THEN FDivInt(total, Len(field_analysis) * 3)
    ELSE FZero

FormRecord(fields, field_analysis) ==
    [total_fields        |-> Len(fields),
     field_analysis      |-> field_analysis,
     validation_score    |-> form_score(SumValidation(field_analysis), field_analysis),
     accessibility_score |-> form_score(SumAccessibility(field_analysis), field_analysis)]

\* lines 202-260: one form of the page
form_of(fields) ==
    FormRecord(fields, [i \in 1..Len(fields) |-> field_analysis_of(fields[i])])

\* sum(...) over the forms, starting from the int 0
RECURSIVE SumValidationScores(_)
SumValidationScores(forms) ==
    IF Len(forms) = 0 THEN FZero
    ELSE FAdd(SumValidationScores(SubSeq(forms, 1, Len(forms) - 1)),
              forms[Len(forms)].validation_score)

RECURSIVE SumAccessibilityScores(_)
SumAccessibilityScores(forms) ==
    IF Len(forms) = 0 THEN FZero
    ELSE FAdd(SumAccessibilityScores(SubSeq(forms, 1, Len(forms) - 1)),
              forms[Len(forms)].accessibility_score)

\* lines 286-291
form_summary(forms) ==
    [count    |-> Len(forms),
     analysis |-> forms,
     total_validation_score |->
        IF Len(forms) > 0
        THEN FDivByInt(SumValidationScores(forms), Len(forms)) ELSE FZero,
     total_accessibility_score |->
        IF Len(forms) > 0
        THEN FDivByInt(SumAccessibilityScores(forms), Len(forms)) ELSE FZero]

\* line 274
RECURSIVE form_labels(_)
form_labels(forms) ==
    IF Len(forms) = 0 THEN 0
    ELSE CountWhere(Head(forms).field_analysis,
                    LAMBDA f : "has_label" \in f.accessibility)
         + form_labels(Tail(forms))

FetchRecord(pg, ctas, forms) ==
    [ctas      |-> cta_summary(ctas),
     forms     |-> form_summary(forms),
     content   |-> pg.content,
     technical |-> [accessibility |->
                      [pg.access EXCEPT !.form_labels = form_labels(forms)]]]

\* lines 153-313: the bundle returned for a page
fetch_website_content(pg) ==
    FetchRecord(pg,
                sort_ctas([i \in 1..Len(pg.ctas) |-> cta_of(pg.ctas[i])]),
                [i \in 1..Len(pg.forms) |-> form_of(pg.forms[i])])

\* every reading of classes, style and position is possible
CtaElements ==
    [is_primary : BOOLEAN, is_secondary : BOOLEAN, has_contrast : BOOLEAN,
     is_in_hero : BOOLEAN, is_above_fold : BOOLEAN]

\* the elements longer CTA lists are made of: a primary one in the hero, a
\* secondary one with contrast below the fold, a plain one above the fold
CtaKinds ==
    {[is_primary |-> TRUE, is_secondary |-> FALSE, has_contrast |-> FALSE,
      is_in_hero |-> TRUE, is_above_fold |-> TRUE],
     [is_primary |-> FALSE, is_secondary |-> TRUE, has_contrast |-> TRUE,
      is_in_hero |-> FALSE, is_above_fold |-> FALSE],
     [is_primary |-> FALSE, is_secondary |-> FALSE, has_contrast |-> TRUE,
      is_in_hero |-> FALSE, is_above_fold |-> TRUE]}

MaxCtas == 6

CtaLists ==
    {<<e>> : e \in CtaElements}
    \cup UNION {[1..n -> CtaKinds] : n \in 0..MaxCtas}

\* a field with no attribute, one with a few, one with all of them
FieldKinds ==
    {[validations |-> {}, accessibility |-> {}],
     [validations |-> {"required"},
      accessibility |-> {"has_label", "has_placeholder"}],
     [validations |-> ValidationAttrs, accessibility |-> AccessibilityAttrs]}

MaxFields == 2

FormInputs == UNION {[1..n -> FieldKinds] : n \in 0..MaxFields}

\* pages with no form, one form or two forms
FormLists ==
    {<<>>} \cup {<<f>> : f \in FormInputs}
    \cup {<<f, g>> : f \in FormInputs, g \in FormInputs}

Page(ctas, forms) ==
    [ctas |-> ctas, forms |-> forms, content |-> HiContent, access |-> HiAccess]

Pages ==
    {Page(c, <<>>) : c \in CtaLists} \cup {Page(<<>>, f) : f \in FormLists}

InitFetch ==
    /\ InitSession
    /\ InitRun
    /\ InitScoring
    /\ site_data = NoSiteData
    /\ response_text = <<>>
    /\ page \in Pages

\* line 553 with a fetch that succeeds
FetchPage ==
    /\ site_data = NoSiteData
    /\ site_data' = fetch_website_content(page)
    /\ UNCHANGED <<session, run, inputs, scoring>>

NextFetch == FetchPage

SpecFetch == InitFetch /\ [][NextFetch]_vars

(***************************************************************************)
(* The first analysis of a session on replies with richer insight segments *)
(***************************************************************************)
CardTitles ==
    {<<TitleNumber, Space, <<"a">>, Bold>>, <<<<"a">>, Space, Markup>>}

\* the lines a segment is made of after its title line
BodyLines ==
    {<<ObservationLabel, Space, <<"a">>, Space, Markup>>,
     <<ObservationLabel>>,
     <<ImpactLabel, Space, Low>>,
     <<FixLabel>>,
     <<Bullet, Space, <<"a">>, Space, Markup>>,
     <<Bullet>>,
     <<ImprovementLabel, Space, <<"a">>>>,
     <<<<"a">>, Space, High, Space, ImpactWord>>}

MaxLines == 3

\* at most k lines, each after a line break
RECURSIVE Bodies(_)
Bodies(k) ==
    IF k = 0 THEN {<<>>}
    ELSE Bodies(k - 1)
         \cup {b \o <<Newline>> \o l : b \in Bodies(k - 1), l \in BodyLines}

\* replies with one insight segment: a title line and up to MaxLines lines
RichTexts ==
    {<<Marker, Space>> \o t \o b \o <<Newline>> :
        t \in CardTitles, b \in Bodies(MaxLines)}

MaxCards == 4

\* replies with up to k segments that are a bare word or nothing at all
RECURSIVE ShortTexts(_)
ShortTexts(k) ==
    IF k = 0 THEN {<<>>}
    ELSE ShortTexts(k - 1)
         \cup {t \o seg : t \in ShortTexts(k - 1),
                          seg \in {<<Marker, Newline>>}
                                  \cup {<<Marker, Space, w, Newline>> : w \in Words}}

RenderTexts == RichTexts \cup (ShortTexts(MaxCards) \ {<<>>})

InitRender ==
    /\ analysis_data = EmptyData
    /\ current_url = <<>>
    /\ ux_health_score = None
    /\ url = <<"https", ":", "//", "a.com">>
    /\ InitRun
    /\ InitScoring
    /\ site_data = NoSiteData
    /\ response_text = <<>>
    /\ page = NoPage

\* the first click of the session: the fetch returns the empty page and the
\* generation returns a reply of RenderTexts
FirstAnalysis ==
    /\ current_url = <<>>
    /\ \E t \in RenderTexts :
         ParseResponse([raises |-> "", site_data |-> EmptyPage],
                       [raises |-> "", text |-> t])

NextRender == FirstAnalysis

SpecRender == InitRender /\ [][NextRender]_vars

HierarchyPoints(bundle) ==
    (IF bundle.content.headings.h1 = 1 THEN 5 ELSE 0)
    + (IF bundle.content.headings.h2 > 0 THEN 5 ELSE 0)
    + (IF bundle.content.headings.h3 > 0 THEN 5 ELSE 0)

ZeroDenominators(bundle) ==
    /\ bundle.forms.count = 0
    /\ bundle.ctas.total = 0
    /\ bundle.content.paragraphs = 0

\* C2: on a bundle with zero forms, zero CTAs and zero paragraphs the scorer
\* returns a score and every ratio-dependent term contributes 0: the content
\* sub-score is the heading-hierarchy points alone, the engagement sub-score
\* is 0 and the accessibility sub-score has no form-label points.
C2_ZeroDenominatorTermsAreZero ==
    (n_calls > 0 /\ ZeroDenominators(site_data)) =>
        /\ score_last.final_score \in 0..100
        /\ score_last.scores.content = HierarchyPoints(site_data)
        /\ score_last.scores.engagement = FZero
        /\ score_last.scores.accessibility
             = AccessibilityScore([site_data EXCEPT
                   !.technical.accessibility.form_labels = 0])

PatternMatches(k) == re_search(score_patterns[k], response_text) # 0

FirstMatchingPattern ==
    CHOOSE k \in 1..Len(score_patterns) :
        PatternMatches(k) /\ \A j \in 1..(k - 1) : ~PatternMatches(j)

CaptureOf(k) == IntOf(response_text[re_search(score_patterns[k], response_text)])

\* C3: the extracted score is the number captured by the first pattern of the
\* priority list that matches anywhere in the text, wherever in the text the
\* patterns after it match; it is None when no pattern matches.
C3_FirstPatternWins ==
    n_parts > 0 =>
        IF \E k \in 1..Len(score_patterns) : PatternMatches(k)
        THEN extracted_score = CaptureOf(FirstMatchingPattern)
        ELSE extracted_score = None

\* a later pattern of the list matches earlier in the text, with another
\* number, than the pattern that decides
C3_Witness ==
    /\ n_parts > 0
    /\ \E j, k \in 1..Len(score_patterns) :
         /\ j < k
         /\ PatternMatches(j)
         /\ \A i \in 1..(j - 1) : ~PatternMatches(i)
         /\ PatternMatches(k)
         /\ re_search(score_patterns[k], response_text)
              < re_search(score_patterns[j], response_text)
         /\ CaptureOf(k) # CaptureOf(j)
         /\ extracted_score = CaptureOf(j)

\* C4: whenever a score pattern matched an integer n in the generated text,
\* the stored health score is min(100, max(1, n)); in particular a matched 0
\* is stored as 1.
C4_MatchedScoreIsClamped ==
    extracted_score # None =>
        ux_health_score = Min(100, Max(1, extracted_score))

\* C5: when no pattern matched in the generated text of a run, the stored
\* health score is calculate_health_score of that run's bundle and the
\* display reports its source as calculated, not as reported by the model.
C5_FallbackIsTaggedCalculated ==
    (n_parts > 0 /\ extracted_score = None) =>
        /\ ux_health_score = calculate_health_score(site_data).final_score
        /\ shown.rendered => shown.source = "calculated"

\* C6: a run whose generated text contains no insight marker ends with the
\* format error and leaves the URL -> result mapping exactly as it was.
C6_NoMarkerLeavesMappingAlone ==
    [][n_parts' = 1 =>
         /\ error' = FormatError
         /\ analysis_data' = analysis_data]_vars

\* a format failure in a session that already holds a result for the URL
C6_Witness ==
    /\ n_parts = 1
    /\ error = FormatError
    /\ url \in DOMAIN analysis_data
    /\ Len(analysis_data[url]) > 0

\* C7: a run that ends in a format failure changes neither the
\* URL -> result mapping nor the stored health score.
C7_FormatFailureStoresNothing ==
    [][error' = FormatError =>
         /\ analysis_data' = analysis_data
         /\ ux_health_score' = ux_health_score]_vars

\* C8: a successful analysis of one URL changes neither the insights nor the
\* displayed score of any other URL.
C8_ScoresKeyedByUrl ==
    [][n_parts' > 1 =>
         \A a \in DOMAIN analysis_data \ {url'} :
            /\ analysis_data'[a] = analysis_data[a]
            /\ display_results(analysis_data', a, ux_health_score').final_score
                 = display_results(analysis_data, a, ux_health_score).final_score]_vars

\* C9: a click with a URL that lacks a scheme or a host calls neither
\* collaborator, leaves current URL, mapping and stored score unchanged and
\* reports the invalid URL.
C9_InvalidUrlRejectedFirst ==
    [][(button' /\ (urlparse(url').scheme = "" \/ urlparse(url').netloc = "")) =>
         /\ calls' = <<>>
         /\ error' = InvalidUrlError
         /\ session' = session]_vars

\* an invalid URL was rejected in a session that holds results
C9_Witness ==
    /\ button
    /\ urlparse(url).scheme # ""
    /\ urlparse(url).netloc = ""
    /\ error = InvalidUrlError
    /\ calls = <<>>
    /\ analysis_data # EmptyData
    /\ current_url # url

\* C10: a run whose fetch fails makes exactly one fetch call and no
\* generation call, reports an error that carries the cause and leaves
\* mapping and stored score unchanged; in every run the generation call comes
\* second, after a fetch that returned a bundle.
C10_FetchFailureStopsRun ==
    /\ [][fetch_result' \notin {"", "ok"} =>
            /\ calls' = <<"fetch">>
            /\ error' = <<"Error analyzing website: ",
                          "Failed to fetch website: ", fetch_result'>>
            /\ analysis_data' = analysis_data
            /\ ux_health_score' = ux_health_score]_vars
    /\ [](\A i \in 1..Len(calls) :
            calls[i] = "generate" =>
                /\ calls = <<"fetch", "generate">>
                /\ fetch_result = "ok"
                /\ site_data # NoSiteData)

\* a fetch failed in a session that holds a result and a score
C10_Witness ==
    /\ fetch_result \in FetchErrors
    /\ calls = <<"fetch">>
    /\ analysis_data # EmptyData
    /\ ux_health_score # None

\* round(x) for a float x >= 0: the nearest integer, ties to the even one
FRoundHalfEven(a) ==
    IF Len(a.m) = 0 \/ a.e >= 0 THEN FTrunc(a)
    ELSE IF BigBit(a.m, (0 - a.e) - 1) = 1
            /\ (BigAnyBelow(a.m, (0 - a.e) - 1) \/ FTrunc(a) % 2 = 1)
    THEN FTrunc(a) + 1
    ELSE FTrunc(a)

\* lines 126-130: the weighted sum of the three sub-scores
WeightedSum(scores) ==
    FAdd(FAdd(FMul(FFromInt(scores.content), Lit_0_35),
              FMul(scores.engagement, Lit_0_35)),
         FMul(FFromInt(scores.accessibility), Lit_0_30))

\* C16: the final score is the weighted sum of the three sub-scores rounded
\* to the nearest integer and then clamped to [0,100].
C16_FinalScoreIsRounded ==
    n_calls > 0 =>
        score_last.final_score
            = Max(0, Min(100, FRoundHalfEven(WeightedSum(score_last.scores))))

\* C20: on a bundle whose aggregate form scores lie in [0,1] the sub-scores
\* stay within content <= 35, engagement <= 35 and accessibility <= 30, and
\* the final score is at most 33.
C20_FallbackScoreAtMost33 ==
    (/\ n_calls > 0
     /\ FLeq(site_data.forms.total_validation_score, FFromInt(1))
     /\ FLeq(site_data.forms.total_accessibility_score, FFromInt(1))) =>
        /\ score_last.scores.content <= 35
        /\ FLeq(score_last.scores.engagement, FFromInt(35))
        /\ score_last.scores.accessibility <= 30
        /\ score_last.final_score <= 33

\* the page that earns every point of every category
C20_Witness ==
    /\ n_calls > 0
    /\ site_data.forms.total_validation_score = FFromInt(1)
    /\ site_data.forms.total_accessibility_score = FFromInt(1)
    /\ score_last.scores.content = 35
    /\ score_last.scores.engagement = FFromInt(35)
    /\ score_last.scores.accessibility = 30
    /\ score_last.final_score = 33

\* C17: every CTA extracted by fetch_website_content has a prominence score
\* in 0..4.
C17_ProminenceAtMost4 ==
    site_data # NoSiteData =>
        \A i \in 1..Len(site_data.ctas.elements) :
            site_data.ctas.elements[i].prominence_score \in 0..4

\* attributes-present over attributes-checked, averaged over the fields
MeanOverFields(total, checked, fields) ==
    IF fields = 0 THEN FZero ELSE FDivInt(total, checked * fields)

\* C18: a form's validation score is its number of true validation attributes
\* over 7 x its number of fields, its accessibility score the number of true
\* accessibility attributes over 5 x its number of fields, both 0 for a form
\* without fields; these and the bundle-level averages lie in [0,1].
C18_FormScoresAreMeans ==
    site_data # NoSiteData =>
        /\ \A i \in 1..Len(site_data.forms.analysis) :
             LET form == site_data.forms.analysis[i]
             IN  /\ form.validation_score
                     = MeanOverFields(SumValidation(form.field_analysis),
                                      Cardinality(ValidationAttrs), form.total_fields)
                 /\ form.accessibility_score
                     = MeanOverFields(SumAccessibility(form.field_analysis),
                                      Cardinality(AccessibilityAttrs), form.total_fields)
                 /\ FLeq(form.validation_score, FFromInt(1))
                 /\ FLeq(form.accessibility_score, FFromInt(1))
        /\ FLeq(site_data.forms.total_validation_score, FFromInt(1))
        /\ FLeq(site_data.forms.total_accessibility_score, FFromInt(1))

LocationRank(loc) ==
    CASE loc = "hero" -> 0 [] loc = "above_fold" -> 1 [] loc = "below_fold" -> 2

\* a comes strictly before b: higher prominence, or equal prominence and a
\* location nearer the top
RanksBefore(a, b) ==
    \/ a.prominence_score > b.prominence_score
    \/ /\ a.prominence_score = b.prominence_score
       /\ LocationRank(a.location) < LocationRank(b.location)

\* the CTAs of the page in document order
PageCtas == [i \in 1..Len(page.ctas) |-> cta_of(page.ctas[i])]

Occurrences(seq, x) == Cardinality({i \in 1..Len(seq) : seq[i] = x})

C11_AtMostThreeRecords ==
    /\ \A u \in DOMAIN analysis_data : Len(issues_of(analysis_data[u])) <= 3
    /\ Len(shown.cards) <= 3

\* C12: whenever the mapping holds an entry for a URL, rendering that entry
\* yields at least one insight record.
C12_StoredEntryRendersARecord ==
    \A u \in DOMAIN analysis_data :
        Len(cards_of(issues_of(analysis_data[u]))) >= 1

RawMarkup(text) == HasTok(text, {Markup})

\* C13: no field of a rendered card (title, observation, impact, suggested
\* fixes, expected improvement) contains a raw '<' or '>' of the generated
\* text.
C13_CardFieldsAreEscaped ==
    \A i \in 1..Len(shown.cards) :
        /\ ~RawMarkup(shown.cards[i].title)
        /\ ~RawMarkup(shown.cards[i].observation)
        /\ ~RawMarkup(shown.cards[i].impact)
        /\ ~RawMarkup(shown.cards[i].expected_improvement)
        /\ \A k \in 1..Len(shown.cards[i].suggested_fix) :
             ~RawMarkup(shown.cards[i].suggested_fix[k])

\* the segments of a stored text that are not blank, in order
NonBlankSegments(text) ==
    SelectSeq(split(text, Marker), LAMBDA seg : \E i \in 1..Len(seg) : ~IsWs(seg[i]))

C15_NoImpactLabelMeansMedium ==
    \A i \in 1..Len(shown.cards) :
        ~HasTok(shown.issues[i], {ImpactLabel}) =>
            /\ shown.cards[i].impact_level = "medium"
            /\ shown.cards[i].impact = NoImpact

====
